---- MODULE Spec2Model ----
(***************************************************************************)
(* Model of main.py of the Telegram RSS bot: check_news_job (one run over  *)
(* every feed), its persistent database (DB_FILE) and the helpers the run  *)
(* calls.  One run is a sequence of steps: load the database, send the     *)
(* nightly summary, then for every feed fetch it and process its entries   *)
(* oldest first; every confirmed delivery is followed by two save_data     *)
(* calls.  The process may be killed at any step.                          *)
(***************************************************************************)
EXTENDS Integers, Sequences, FiniteSets, TLC

VARIABLES
    now_utc,               \* datetime.now(timezone.utc) seen by the runs
    feeds,                 \* url -> entries the feed returns, newest first
    url_file,              \* content of URL_FILE
    ai,                    \* a call of process_article_with_ai on its own
    disk,                  \* content of DB_FILE
    pc,                    \* position of the process inside check_news_job
    database,              \* the dict load_data returned (in memory)
    filtered_urls,         \* the urls of URL_FILE, as the run read them
    sent_this_run,         \* set of entry ids confirmed in this run
    feedIdx,               \* index of the current url in filtered_urls
    sliced,                \* current feed: window, oldest first
    entryIdx,              \* index of the current entry in sliced
    last_sent_id_for_url,  \* boundary read from the ledger at feed start
    seen_last,             \* boundary already met in this feed
    pendingSaves,          \* save_data calls still to make in this step
    saveRet,               \* where the run continues after the saves
    run,                   \* number of runs started so far
    loaded,                \* history: ledger as loaded at run start
    log,                   \* history: delivery attempts of this run
    prevLog,               \* history: delivery attempts of the previous run
    hist,                  \* history: flags and ledgers across runs
    visited,               \* history: urls fetched in this run, in order
    summaries              \* history: nightly summaries sent, over all runs

vars == <<now_utc, feeds, url_file, ai, disk, pc, database, filtered_urls, sent_this_run,
          feedIdx, sliced, entryIdx, last_sent_id_for_url, seen_last,
          pendingSaves, saveRet, run, loaded, log, prevLog, hist, visited,
          summaries>>

----------------------------------------------------------------------------
(* Bounds of the model *)

MaxFeedLen == 2     \* longest list of entries a feed returns
MaxRuns == 2        \* runs of check_news_job in one behaviour
MaxFaults == 1      \* steps of one behaviour in which something fails: a backend,
                    \* a delivery, a fetch, a save, or the process is killed

(* Configuration.  GRACE_HOURS and SUMMARY_HOUR are the defaults of the     *)
(* environment variables; MAX_ENTRIES_PER_FEED (default 20) is set to 2    *)
(* through its environment variable so that the window cuts a feed.        *)
(* The machine's time zone is UTC, so mktime reads published_parsed as UTC. *)

GRACE_HOURS == 6
SUMMARY_HOUR == 23
MAX_ENTRIES_PER_FEED == 2
\* Europe/Helsinki in winter: local time is UTC + 2 hours
TzOffsetHours == 2

None == ""          \* Python None, and every other falsy string

\* the feed urls that exist
Urls == {"u1", "u2"}

----------------------------------------------------------------------------
(* Sequences *)

RECURSIVE Reverse(_)
Reverse(s) == IF s = <<>> THEN <<>> ELSE Append(Reverse(Tail(s)), Head(s))

Take(s, n) == SubSeq(s, 1, IF Len(s) < n THEN Len(s) ELSE n)

RECURSIVE SeqsUpTo(_, _)
SeqsUpTo(S, n) ==
    IF n = 0 THEN {<<>>}
    ELSE LET shorter == SeqsUpTo(S, n - 1)
         IN shorter \cup {Append(s, x) : s \in {t \in shorter : Len(t) = n - 1}, x \in S}

----------------------------------------------------------------------------
(* Feed entries.  published_parsed is a UTC time (day number, hour), or     *)
(* absent; title is a text; words is the set of keywords that occur in the *)
(* lower-cased title and HTML-stripped summary.                            *)

Dates == 8..10

Entry(id, guid, link, title, words, hasDate, day, hour) ==
    [id |-> id, guid |-> guid, link |-> link, title |-> title, words |-> words,
     published_parsed |-> [has |-> hasDate, day |-> day, hour |-> hour]]

\* The entries a feed may carry.  Local day 10 is "today" at every clock.
EntryA == Entry("a", None, "link-a", <<"A", "&", "<">>, {"galaxy"}, TRUE, 9, 23)  \* local day 10, 01h
EntryB == Entry(None, None, "b", <<"B">>, {"quantum", "physics"}, TRUE, 10, 3)   \* id is the link
EntryC == Entry("c", None, "link-c", <<"C">>, {"physics"}, TRUE, 9, 12)          \* local day 9
EntryD == Entry("d", None, "link-d", <<"D">>, {"consciousness"}, TRUE, 8, 10)    \* local day 8
EntryE == Entry("e", None, "link-e", <<"E">>, {"cooking"}, TRUE, 10, 2)          \* no allowed topic
EntryF == Entry(None, "f", "link-f", <<"F">>, {"galaxy"}, FALSE, 0, 0)           \* no date
EntryG == Entry(None, None, None, <<"G">>, {"galaxy"}, TRUE, 10, 2)              \* no identifier

Entries == {EntryA, EntryB, EntryC, EntryD, EntryE, EntryF, EntryG}

\* Clocks of a run, UTC: local 06:00:00 (the last second of the grace window)
\* and local 23:30:00 (past SUMMARY_HOUR) of day 10.
NowChoices ==
    { [day |-> 10, hour |-> 4, minute |-> 0, second |-> 0],
      [day |-> 10, hour |-> 21, minute |-> 30, second |-> 0] }

\* dt_utc.astimezone(tz): local date and hour of a UTC day and hour
astimezone(day, hour) ==
    [date |-> day + ((hour + TzOffsetHours) \div 24),
     hour |-> (hour + TzOffsetHours) % 24]

\* now_local of check_news_job
NowLocal(t) ==
    [date |-> astimezone(t.day, t.hour).date, hour |-> astimezone(t.day, t.hour).hour,
     minute |-> t.minute, second |-> t.second]

NoDate == 0

\* variant: an entry without a timestamp counts as published on the latest date
published_date_or_latest(entry) ==
    IF ~entry.published_parsed.has THEN CHOOSE d \in Dates : \A e \in Dates : e <= d
    ELSE astimezone(entry.published_parsed.day, entry.published_parsed.hour).date

\* entry_published_date_in_tz: the local date of publication, or NoDate (None)
entry_published_date_in_tz(entry) ==
    IF ~entry.published_parsed.has THEN NoDate
    ELSE astimezone(entry.published_parsed.day, entry.published_parsed.hour).date

\* entry_id = entry.id or entry.guid or entry.link
EntryId(entry) ==
    IF entry.id # None THEN entry.id
    ELSE IF entry.guid # None THEN entry.guid
    ELSE entry.link

\* detect_topic_and_emoji: the marker of the first keyword group that matches
astro == {"astro", "astronomy", "cosmology", "cosmos", "astrophys", "galaxy"}
physics == {"physics", "relativity", "thermodynamics", "particle", "field"}
quantum == {"quantum"}
philos_science == {"philosophy of science"}
philos_mind == {"philosophy of mind", "consciousness"}
epist == {"epistemology", "knowledge"}

mappings == << <<astro, "blue">>, <<quantum, "white">>, <<physics, "black">>,
               <<philos_science, "orange">>, <<philos_mind, "orange">>,
               <<epist, "orange">> >>

RECURSIVE FirstMatch(_, _)
FirstMatch(words, i) ==
    IF i > Len(mappings) THEN None
    ELSE IF mappings[i][1] \cap words # {} THEN mappings[i][2]
    ELSE FirstMatch(words, i + 1)

\* variant: an entry that matches no keyword gets a marker of its own
marker_or_default(words) ==
    IF FirstMatch(words, 1) = None THEN "grey" ELSE FirstMatch(words, 1)

detect_topic_and_emoji(words) == FirstMatch(words, 1)

----------------------------------------------------------------------------
(* The database *)

NoSummary == 0

\* what load_data returns when DB_FILE is missing or corrupt
EmptyDB ==
    [last_sent_links |-> [u \in Urls |-> None],
     daily_sent |-> [d \in Dates |-> <<>>],
     last_summary_date |-> NoSummary]

\* a JSON value that is not an object, such as [] or null
NotADict == [json |-> "list"]

\* DB_FILE: holds a database; does not exist; holds text that is not JSON
\* (empty or cut short); holds JSON that is not an object; holds bytes that
\* are not UTF-8
FileOk(db) == [state |-> "ok", db |-> db]
FileMissing == [state |-> "missing", db |-> EmptyDB]
FileCorrupt == [state |-> "corrupt", db |-> EmptyDB]
FileNotObject == [state |-> "notobject", db |-> NotADict]
FileUndecodable == [state |-> "undecodable", db |-> EmptyDB]

\* load_data raises: only FileNotFoundError and JSONDecodeError are caught
load_data_raises(file) == file.state = "undecodable"

\* load_data, when it returns
load_data(file) == IF file.state \in {"ok", "notobject"} THEN file.db ELSE EmptyDB

\* database.get(...) at the start of check_news_job raises AttributeError
get_raises(db) == db = NotADict

----------------------------------------------------------------------------
(* Text.  A string is a sequence of characters; a fixed piece of text (a    *)
(* marker, a tag, a label, a placeholder, a url) is written as one element: *)
(* none of them holds the character &.                                      *)

IsSpace(c) == c \in {" ", "\n"}

RECURSIVE lstrip(_)
lstrip(s) == IF s # <<>> /\ IsSpace(Head(s)) THEN lstrip(Tail(s)) ELSE s

RECURSIVE rstrip(_)
rstrip(s) ==
    IF s # <<>> /\ IsSpace(s[Len(s)]) THEN rstrip(SubSeq(s, 1, Len(s) - 1)) ELSE s

\* str.strip()
strip(s) == rstrip(lstrip(s))

\* str.split("\n\n"): cur is the piece being read
RECURSIVE split_blank_line(_, _)
split_blank_line(s, cur) ==
    IF s = <<>> THEN <<cur>>
    ELSE IF Len(s) >= 2 /\ s[1] = "\n" /\ s[2] = "\n"
         THEN <<cur>> \o split_blank_line(SubSeq(s, 3, Len(s)), <<>>)
         ELSE split_blank_line(Tail(s), Append(cur, Head(s)))

\* str.splitlines(): cur is the line being read
RECURSIVE splitlines(_, _)
splitlines(s, cur) ==
    IF s = <<>> THEN (IF cur = <<>> THEN <<>> ELSE <<cur>>)
    ELSE IF Head(s) = "\n"
         THEN <<cur>> \o splitlines(Tail(s), <<>>)
         ELSE splitlines(Tail(s), Append(cur, Head(s)))

\* sep.join(pieces)
RECURSIVE join(_, _)
join(pieces, sep) ==
    IF pieces = <<>> THEN <<>>
    ELSE IF Len(pieces) = 1 THEN pieces[1]
    ELSE pieces[1] \o sep \o join(Tail(pieces), sep)

RECURSIVE MapStrip(_)
MapStrip(pieces) ==
    IF pieces = <<>> THEN <<>> ELSE <<strip(Head(pieces))>> \o MapStrip(Tail(pieces))

\* [p.strip() for p in raw.split("\n\n") if p.strip()]
Parts(raw) == SelectSeq(MapStrip(split_blank_line(raw, <<>>)), LAMBDA p : p # <<>>)

\* html.escape(s), quote=True
EscapeChar(c) ==
    IF c = "&" THEN <<"&", "a", "m", "p", ";">>
    ELSE IF c = "<" THEN <<"&", "l", "t", ";">>
    ELSE IF c = ">" THEN <<"&", "g", "t", ";">>
    ELSE IF c = "\"" THEN <<"&", "q", "u", "o", "t", ";">>
    ELSE IF c = "'" THEN <<"&", "#", "x", "2", "7", ";">>
    ELSE <<c>>

RECURSIVE escape(_)
escape(s) == IF s = <<>> THEN <<>> ELSE EscapeChar(Head(s)) \o escape(Tail(s))

\* the character references html.unescape knows, of those the texts can hold:
\* a name, and the character it stands for
charrefs == << <<<<"a", "m", "p">>, "&">>, <<<<"l", "t">>, "<">>,
               <<<<"g", "t">>, ">">>, <<<<"q", "u", "o", "t">>, "\"">>,
               <<<<"#", "x", "2", "7">>, "'">>, <<<<"#", "3", "9">>, "'">> >>

StartsWith(s, prefix) ==
    /\ Len(s) >= Len(prefix)
    /\ SubSeq(s, 1, Len(prefix)) = prefix

\* variant: the text is sent as it is, references included
unescape_nothing(s) == s

\* html.unescape(s): one pass from left to right; a reference is replaced by
\* its character (the ";" after the name is optional) and the replacement is
\* not read again
RECURSIVE unescape(_)
unescape(s) ==
    IF s = <<>> THEN <<>>
    ELSE IF Head(s) = "&" /\ \E i \in DOMAIN charrefs : StartsWith(Tail(s), charrefs[i][1])
         THEN LET i == CHOOSE k \in DOMAIN charrefs : StartsWith(Tail(s), charrefs[k][1])
                  rest == SubSeq(s, 2 + Len(charrefs[i][1]), Len(s))
              IN  <<charrefs[i][2]>> \o
                  unescape(IF rest # <<>> /\ Head(rest) = ";" THEN Tail(rest) ELSE rest)
         ELSE <<Head(s)>> \o unescape(Tail(s))

----------------------------------------------------------------------------
(* The generation chain.  The two backends are external: a call of one      *)
(* raises or returns a text.                                                *)

Raises == [raises |-> TRUE, text |-> <<>>]
Returns(text) == [raises |-> FALSE, text |-> text]

NoExplanation == <<"(no-explanation-provided)">>       \* "(توضیحی فراهم نشد)"
OpenAIRespondedEmpty == <<"(OpenAI-responded-empty)">>
WithoutExplanation == <<"(without-explanation)">>      \* "(بدون توضیح)"
AIFailed == <<"(AI-processing-failed)">>               \* "(پردازش AI ناموفق بود)"

\* the title and the explanation read from a text that has content
ParseParts(parts) ==
    IF Len(parts) >= 2
    THEN [t |-> parts[1], e |-> join(Tail(parts), <<"\n", "\n">>)]
    ELSE LET lines == splitlines(parts[1], <<>>)
             rest == strip(join(Tail(lines), <<"\n">>))
         IN  [t |-> strip(lines[1]), e |-> IF rest # <<>> THEN rest ELSE NoExplanation]

max_retries == 1

\* openai_generate from attempt n on: replies[n] is what the n-th call of the
\* API does
RECURSIVE openai_attempt(_, _, _)
openai_attempt(title, replies, n) ==
    IF n > max_retries + 1
    THEN [raises |-> TRUE, t |-> <<>>, e |-> <<>>, attempts |-> n - 1]
    ELSE IF replies[n].raises
    THEN openai_attempt(title, replies, n + 1)
    ELSE LET parts == Parts(replies[n].text)
         IN  IF parts # <<>>
             THEN [raises |-> FALSE, t |-> ParseParts(parts).t,
                   e |-> ParseParts(parts).e, attempts |-> n]
             ELSE [raises |-> FALSE, t |-> title, e |-> OpenAIRespondedEmpty,
                   attempts |-> n]

\* openai_generate(title, summary); client: init_openai_client returned a client
openai_generate(title, client, replies) ==
    IF ~client
    THEN [raises |-> TRUE, t |-> <<>>, e |-> <<>>, attempts |-> 0]
    ELSE openai_attempt(title, replies, 1)

\* variant: when the primary backend fails the degraded substitute is returned
\* at once
process_article_without_fallback(title, primary, client, replies) ==
    IF ~primary.raises /\ Parts(primary.text) # <<>>
    THEN [translated_title |-> ParseParts(Parts(primary.text)).t,
          explanation |-> ParseParts(Parts(primary.text)).e,
          backend_used |-> "genai", calls |-> <<"genai_generate">>, attempts |-> 0]
    ELSE [translated_title |-> escape(title), explanation |-> AIFailed,
          backend_used |-> "fallback", calls |-> <<"genai_generate">>, attempts |-> 0]

\* process_article_with_ai(title, summary): primary is what genai_generate
\* does; calls lists the backends called, in order, and attempts counts the
\* calls of the secondary API
process_article_with_ai(title, primary, client, replies) ==
    IF ~primary.raises /\ primary.text # <<>> /\ Parts(primary.text) # <<>>
    THEN [translated_title |-> ParseParts(Parts(primary.text)).t,
          explanation |-> ParseParts(Parts(primary.text)).e,
          backend_used |-> "genai", calls |-> <<"genai_generate">>, attempts |-> 0]
    ELSE LET o == openai_generate(title, client, replies)
         IN  IF ~o.raises /\ o.t # <<>>
             THEN [translated_title |-> o.t,
                   explanation |-> IF o.e # <<>> THEN o.e ELSE WithoutExplanation,
                   backend_used |-> "openai",
                   calls |-> <<"genai_generate", "openai_generate">>,
                   attempts |-> o.attempts]
             ELSE [translated_title |-> escape(title), explanation |-> AIFailed,
                   backend_used |-> "fallback",
                   calls |-> <<"genai_generate", "openai_generate">>,
                   attempts |-> o.attempts]

----------------------------------------------------------------------------
(* check_news_job: the decisions taken for one entry *)

today_local(t) == NowLocal(t).date
yesterday_local(t) == today_local(t) - 1

seconds_since_midnight(t) ==
    NowLocal(t).hour * 3600 + NowLocal(t).minute * 60 + NowLocal(t).second

\* send_flag: published today, or yesterday and within the grace window
SendFlag(pub_date, t) ==
    IF pub_date = today_local(t) THEN TRUE
    ELSE IF pub_date = yesterday_local(t)
         THEN seconds_since_midnight(t) <= GRACE_HOURS * 3600
         ELSE FALSE

\* variant: every feed is treated as having no boundary
SeenLastInitNoBoundary(last) == TRUE

\* seen_last at the start of a feed: no boundary to look for when the ledger has none
SeenLastInit(last) == IF last # None THEN FALSE ELSE TRUE

\* "if not send_flag:" block.  skip: the loop continues with the next entry.
WindowSkip(send_flag, seen, entry_id, last) ==
    IF ~send_flag
    THEN IF ~seen
         THEN IF entry_id = last
              THEN [skip |-> FALSE, seen |-> TRUE]
              ELSE [skip |-> TRUE, seen |-> seen]
         ELSE [skip |-> TRUE, seen |-> seen]
    ELSE [skip |-> FALSE, seen |-> seen]

\* "skip until last_sent" block
BoundarySkip(seen, entry_id, last) ==
    IF ~seen
    THEN IF entry_id = last
         THEN [skip |-> TRUE, seen |-> TRUE]
         ELSE [skip |-> TRUE, seen |-> seen]
    ELSE [skip |-> FALSE, seen |-> seen]

\* variant: the run-scoped dedupe set is never consulted
AlreadySentNever(entry_id, sent) == FALSE

\* cross-feed dedupe within the run
AlreadySent(entry_id, sent) == entry_id \in sent

\* The body of "for entry in sliced" up to the delivery: whether the entry is
\* sent, and seen_last after it.
Decide(entry, seen, last, sent, t) ==
    LET entry_id == EntryId(entry)
        pub_date == entry_published_date_in_tz(entry)
    IN  IF entry_id = None THEN [send |-> FALSE, seen |-> seen]
        ELSE IF pub_date = NoDate THEN [send |-> FALSE, seen |-> seen]
        ELSE LET w == WindowSkip(SendFlag(pub_date, t), seen, entry_id, last)
             IN  IF w.skip THEN [send |-> FALSE, seen |-> w.seen]
                 ELSE LET b == BoundarySkip(w.seen, entry_id, last)
                      IN  IF b.skip THEN [send |-> FALSE, seen |-> b.seen]
                          ELSE IF AlreadySent(entry_id, sent)
                               THEN [send |-> FALSE, seen |-> b.seen]
                          ELSE IF detect_topic_and_emoji(entry.words) = None
                               THEN [send |-> FALSE, seen |-> b.seen]
                          ELSE [send |-> TRUE, seen |-> b.seen]

\* send_telegram_message in HTML mode, then once more without parse_mode
SentOk(html_ok, plain_ok) == IF html_ok THEN TRUE ELSE plain_ok

\* variant: the ledger is advanced whatever the delivery returned
LedgerAfterAnyOutcome(ledger, url, entry_id, sent_ok) == [ledger EXCEPT ![url] = entry_id]

\* variant: a confirmed delivery advances the ledger value of every feed
LedgerAfterAllFeeds(ledger, url, entry_id, sent_ok) ==
    IF sent_ok THEN [u \in DOMAIN ledger |-> entry_id] ELSE ledger

\* "if sent_ok:" the ledger, the run's dedupe set and daily_sent after the delivery
LedgerAfter(ledger, url, entry_id, sent_ok) ==
    IF sent_ok THEN [ledger EXCEPT ![url] = entry_id] ELSE ledger

\* variant: the identifier is recorded whatever the delivery returned
SentAfterAnyOutcome(sent, entry_id, sent_ok) == sent \cup {entry_id}

\* variant: no identifier is ever recorded in the run's dedupe set
SentAfterForgetful(sent, entry_id, sent_ok) == sent

SentAfter(sent, entry_id, sent_ok) ==
    IF sent_ok THEN sent \cup {entry_id} ELSE sent

\* add_daily_sent
add_daily_sent(daily, pub_date, title, link) ==
    [daily EXCEPT ![pub_date] = Append(@, [title_fa |-> title, link |-> link])]

DailyAfter(daily, pub_date, title, link, sent_ok) ==
    IF sent_ok THEN add_daily_sent(daily, pub_date, title, link) ELSE daily

\* variant: the window is walked in the feed's order, newest first
SlicedNewestFirst(entries) == Take(entries, MAX_ENTRIES_PER_FEED)

\* entries_slice reversed: the window of a feed, older -> newer
Sliced(entries) == Reverse(Take(entries, MAX_ENTRIES_PER_FEED))

----------------------------------------------------------------------------
(* check_news_job: the message of an entry and its delivery *)

\* date.isoformat()
isoformat(d) == <<"date-8", "date-9", "date-10">>[d - 7]

\* str.replace("\n", "<br>")
RECURSIVE replace_newlines(_)
replace_newlines(s) ==
    IF s = <<>> THEN <<>>
    ELSE (IF Head(s) = "\n" THEN <<"<br>">> ELSE <<Head(s)>>) \o replace_newlines(Tail(s))

\* the message in HTML mode
Message(emoji, translated_title, explanation, pub_date, link) ==
    <<emoji, " ", "<b>">> \o escape(translated_title) \o <<"</b>", "\n", "\n">>
    \o replace_newlines(escape(explanation))
    \o <<"\n", "\n", "published:", " ", isoformat(pub_date)>>
    \o (IF link # None
        THEN <<"\n", "\n", "link:", " ", "<a href=">> \o escape(<<link>>)
             \o <<">", "original-article", "</a>">>
        ELSE <<>>)

\* the calls of send_telegram_message for one entry: HTML mode first, and
\* when that fails once more without parse_mode
Deliver(message, html_ok) ==
    IF html_ok
    THEN << [parse_mode |-> "HTML", text |-> message] >>
    ELSE << [parse_mode |-> "HTML", text |-> message],
            [parse_mode |-> None, text |-> unescape(message)] >>

\* What the backends do during the processing of one entry: the primary
\* answers; the primary raises and the second call of the secondary answers;
\* the primary answers with white space and the secondary has no client.
GenerationOk ==
    [primary |-> Returns(<<"T", "&", "\n", "\n", "E", "<", "\n", "'", "F", "'">>),
     client |-> TRUE, replies |-> <<Raises, Raises>>]
GenerationFallsBack ==
    [primary |-> Raises, client |-> TRUE,
     replies |-> <<Raises, Returns(<<"S", "\"", "\n", "X", ">">>)>>]
GenerationFails ==
    [primary |-> Returns(<<" ">>), client |-> FALSE, replies |-> <<Raises, Raises>>]

Generations == {GenerationOk, GenerationFallsBack, GenerationFails}

----------------------------------------------------------------------------
(* URL_FILE: a sequence of lines, or a file that is missing or unreadable.  *)
(* A url is one element of text.                                            *)

UrlFileOk(lines) == [state |-> "ok", lines |-> lines]
UrlFileMissing == [state |-> "missing", lines |-> <<>>]
UrlFileUnreadable == [state |-> "unreadable", lines |-> <<>>]

\* urls: the stripped lines that are neither blank nor comments
ReadUrls(file) ==
    IF file.state # "ok" THEN <<>>
    ELSE LET kept == SelectSeq(file.lines,
                               LAMBDA line : strip(line) # <<>> /\ Head(strip(line)) # "#")
         IN  [i \in DOMAIN kept |-> strip(kept[i])[1]]

\* variant: every line of the list is kept
keep_duplicates(urls, seen) == urls

\* "dedupe urls": the first occurrence of every url, in order
RECURSIVE dedupe(_, _)
dedupe(urls, seen) ==
    IF urls = <<>> THEN <<>>
    ELSE IF Head(urls) \in seen THEN dedupe(Tail(urls), seen)
    ELSE <<Head(urls)>> \o dedupe(Tail(urls), seen \cup {Head(urls)})

\* "read urls" and "dedupe urls"
ReadAndDedupe(file) == dedupe(ReadUrls(file), {})

----------------------------------------------------------------------------
(* Initial state: the process is not running; DB_FILE is missing or holds a *)
(* database written by earlier runs; the feeds carry any entries.           *)

\* The first feed carries any entries; the second one is empty or carries
\* one article, which the first feed may carry too.
FeedSnapshots ==
    { [u \in Urls |-> IF u = "u1" THEN f1 ELSE f2] :
          f1 \in SeqsUpTo(Entries, MaxFeedLen),
          f2 \in {<<>>, <<EntryA>>} }

\* the ledger an earlier run left: the boundary of the first feed is an old
\* entry ("d"); boundaries inside the recency window arise from the runs
InitialLedgers == { [u \in Urls |-> IF u = "u1" THEN "d" ELSE None] }

InitialFiles ==
    {FileMissing, FileNotObject, FileUndecodable} \cup
    {FileOk([EmptyDB EXCEPT !.last_sent_links = l]) : l \in InitialLedgers}

\* URL_FILE: both urls with a blank line, comments, white space and a
\* repeated url; the urls in the other order; no file; a file that cannot be
\* read
UrlFiles ==
    { UrlFileOk(<< <<"u1">>, <<>>, <<"#", "u2">>, <<" ", "u2", " ", "\n">>,
                   <<"u1", "\n">>, <<" ", "#", "x">> >>),
      UrlFileOk(<< <<"u2">>, <<" ">>, <<"u1">>, <<"u2">> >>),
      UrlFileMissing,
      UrlFileUnreadable }

NoLedger == [u \in Urls |-> None]

\* no call of process_article_with_ai on its own
NoReturn ==
    [translated_title |-> <<>>, explanation |-> <<>>, backend_used |-> None,
     calls |-> <<>>, attempts |-> 0]
NoCall ==
    [title |-> <<>>, primary |-> Raises, client |-> FALSE,
     replies |-> <<Raises, Raises>>, returned |-> FALSE, ret |-> NoReturn]

\* check_news_job is not running and has not run
NotStarted ==
    /\ pc = "idle"
    /\ database = EmptyDB
    /\ filtered_urls = <<>>
    /\ sent_this_run = {}
    /\ feedIdx = 1
    /\ sliced = <<>>
    /\ entryIdx = 1
    /\ last_sent_id_for_url = None
    /\ seen_last = TRUE
    /\ pendingSaves = 0
    /\ saveRet = "feed"
    /\ run = 0
    /\ loaded = NoLedger
    /\ log = <<>>
    /\ prevLog = <<>>
    /\ hist = [faults |-> 0, clean |-> TRUE, saveFailed |-> FALSE, saveFailures |-> 0,
               beforeLast |-> NoLedger, prevEnd |-> "none", prevClean |-> TRUE,
               prevSaveFailed |-> FALSE, prevLedger |-> NoLedger,
               prevBeforeLast |-> NoLedger]
    /\ visited = <<>>
    /\ summaries = <<>>

Init ==
    /\ now_utc \in NowChoices
    /\ feeds \in FeedSnapshots
    /\ url_file \in UrlFiles
    /\ disk \in InitialFiles
    /\ ai = NoCall
    /\ NotStarted

\* the local variables of check_news_job, as they are when it is not running
Stopped ==
    /\ database' = EmptyDB
    /\ filtered_urls' = <<>>
    /\ sent_this_run' = {}
    /\ feedIdx' = 1
    /\ sliced' = <<>>
    /\ entryIdx' = 1
    /\ last_sent_id_for_url' = None
    /\ seen_last' = TRUE
    /\ pendingSaves' = 0
    /\ saveRet' = "feed"

EndOfRun(how) ==
    [hist EXCEPT !.prevEnd = how, !.prevClean = hist.clean,
                 !.prevSaveFailed = hist.saveFailed,
                 !.prevLedger = database.last_sent_links,
                 !.prevBeforeLast = hist.beforeLast]

----------------------------------------------------------------------------
(* check_news_job *)

\* database = load_data(); last_sent_links = ...; sent_this_run = set()
StartRun ==
    /\ pc = "idle"
    /\ run < MaxRuns
    /\ ~load_data_raises(disk)
    /\ ~get_raises(load_data(disk))
    /\ run' = run + 1
    /\ database' = load_data(disk)
    /\ sent_this_run' = {}
    /\ loaded' = load_data(disk).last_sent_links
    /\ prevLog' = log
    /\ log' = <<>>
    /\ visited' = <<>>
    /\ hist' = [hist EXCEPT !.clean = TRUE, !.saveFailed = FALSE, !.saveFailures = 0,
                            !.beforeLast = load_data(disk).last_sent_links]
    /\ pc' = "summary"
    /\ UNCHANGED <<now_utc, feeds, url_file, ai, filtered_urls, disk, feedIdx, sliced, entryIdx,
                   last_sent_id_for_url, seen_last, pendingSaves, saveRet, summaries>>

\* check_news_job ends with the exception that load_data, or the first
\* database.get, raised
StartRunAbort ==
    /\ pc = "idle"
    /\ run < MaxRuns
    /\ load_data_raises(disk) \/ get_raises(load_data(disk))
    /\ run' = run + 1
    /\ loaded' = NoLedger
    /\ prevLog' = log
    /\ log' = <<>>
    /\ visited' = <<>>
    /\ hist' = [hist EXCEPT !.prevEnd = "aborted", !.prevClean = FALSE,
                            !.prevSaveFailed = FALSE, !.prevLedger = NoLedger,
                            !.prevBeforeLast = NoLedger]
    /\ UNCHANGED <<now_utc, feeds, url_file, ai, filtered_urls, disk, pc, database, sent_this_run,
                   feedIdx, sliced, entryIdx, last_sent_id_for_url, seen_last,
                   pendingSaves, saveRet, summaries>>

\* the nightly summary is due
SummaryDue(t, last_summary_date) ==
    /\ NowLocal(t).hour >= SUMMARY_HOUR
    /\ last_summary_date # today_local(t)

\* build_and_send_summary_for_date, when due; then the urls are read.  (The
\* save_data call of the summary comes before the reading of URL_FILE, which
\* does not change in between.)
Summary ==
    /\ pc = "summary"
    /\ feedIdx' = 1
    /\ filtered_urls' = ReadAndDedupe(url_file)
    /\ IF SummaryDue(now_utc, database.last_summary_date)
       THEN \E ok \in BOOLEAN :
              IF ok
              THEN /\ database' = [database EXCEPT !.last_summary_date = today_local(now_utc)]
                   /\ summaries' = Append(summaries,
                                          [run |-> run, date |-> today_local(now_utc),
                                           entries |-> database.daily_sent[today_local(now_utc)],
                                           saved |-> FALSE])
                   /\ pendingSaves' = 1
                   /\ saveRet' = "feed"
                   /\ pc' = "save"
              ELSE /\ pc' = "feed"
                   /\ UNCHANGED <<database, pendingSaves, saveRet, summaries>>
       ELSE /\ pc' = "feed"
            /\ UNCHANGED <<database, pendingSaves, saveRet, summaries>>
    /\ UNCHANGED <<now_utc, feeds, url_file, ai, disk, sent_this_run, sliced, entryIdx,
                   last_sent_id_for_url, seen_last, run, loaded, log, prevLog, hist,
                   visited>>

\* "for url in filtered_urls": fetch the feed; a feed that cannot be fetched
\* and a feed without entries are skipped
FetchFeed ==
    /\ pc = "feed"
    /\ feedIdx <= Len(filtered_urls)
    /\ visited' = Append(visited, filtered_urls[feedIdx])
    /\ \E fetched \in BOOLEAN :
         LET url == filtered_urls[feedIdx]
         IN  /\ ~fetched => hist.faults < MaxFaults
             /\ hist' = [hist EXCEPT !.faults = IF fetched THEN @ ELSE @ + 1,
                                     !.clean = @ /\ fetched]
             /\ IF ~fetched \/ feeds[url] = <<>>
                THEN /\ feedIdx' = feedIdx + 1
                     /\ UNCHANGED <<pc, sliced, entryIdx, last_sent_id_for_url, seen_last>>
                ELSE /\ sliced' = Sliced(feeds[url])
                     /\ last_sent_id_for_url' = database.last_sent_links[url]
                     /\ seen_last' = SeenLastInit(database.last_sent_links[url])
                     /\ entryIdx' = 1
                     /\ pc' = "entry"
                     /\ UNCHANGED feedIdx
    /\ UNCHANGED <<now_utc, feeds, url_file, ai, filtered_urls, disk, database, sent_this_run,
                   pendingSaves, saveRet, run, loaded, log, prevLog, summaries>>

\* one iteration of "for entry in sliced"
ProcessEntry ==
    /\ pc = "entry"
    /\ entryIdx <= Len(sliced)
    /\ LET url == filtered_urls[feedIdx]
           entry == sliced[entryIdx]
           entry_id == EntryId(entry)
           pub_date == entry_published_date_in_tz(entry)
           d == Decide(entry, seen_last, last_sent_id_for_url, sent_this_run, now_utc)
       IN  /\ seen_last' = d.seen
           /\ IF ~d.send
              THEN /\ entryIdx' = entryIdx + 1
                   /\ UNCHANGED <<pc, database, sent_this_run, pendingSaves, saveRet,
                                  log, hist>>
              ELSE \E g \in Generations, html_ok, plain_ok \in BOOLEAN :
                     LET sent_ok == SentOk(html_ok, plain_ok)
                         made == process_article_with_ai(entry.title, g.primary,
                                                         g.client, g.replies)
                         message == Message(detect_topic_and_emoji(entry.words),
                                            made.translated_title, made.explanation,
                                            pub_date, entry.link)
                         cost == IF g = GenerationOk /\ html_ok THEN 0 ELSE 1
                     IN  /\ html_ok => plain_ok
                         /\ hist.faults + cost <= MaxFaults
                         /\ log' = Append(log, [url |-> url, idx |-> entryIdx,
                                                id |-> entry_id,
                                                boundary |-> last_sent_id_for_url,
                                                tries |-> Len(Deliver(message, html_ok)),
                                                ok |-> sent_ok,
                                                made |-> made,
                                                sends |-> Deliver(message, html_ok),
                                                html_ok |-> html_ok])
                         /\ sent_this_run' = SentAfter(sent_this_run, entry_id, sent_ok)
                         /\ database' =
                              [database EXCEPT
                                 !.last_sent_links =
                                     LedgerAfter(@, url, entry_id, sent_ok),
                                 !.daily_sent =
                                     DailyAfter(@, pub_date, made.translated_title,
                                                entry.link, sent_ok)]
                         /\ hist' = [hist EXCEPT
                                       !.faults = @ + cost,
                                       !.clean = @ /\ sent_ok,
                                       !.beforeLast = IF sent_ok
                                                      THEN database.last_sent_links
                                                      ELSE @]
                         /\ IF sent_ok
                            THEN /\ pendingSaves' = 2
                                 /\ saveRet' = "entry"
                                 /\ pc' = "save"
                                 /\ UNCHANGED entryIdx
                            ELSE /\ entryIdx' = entryIdx + 1
                                 /\ UNCHANGED <<pc, pendingSaves, saveRet>>
    /\ UNCHANGED <<now_utc, feeds, url_file, ai, filtered_urls, disk, feedIdx, sliced,
                   last_sent_id_for_url, run, loaded, prevLog, visited, summaries>>

\* the feed's entries are exhausted: next url
EndFeed ==
    /\ pc = "entry"
    /\ entryIdx > Len(sliced)
    /\ feedIdx' = feedIdx + 1
    /\ pc' = "feed"
    /\ UNCHANGED <<now_utc, feeds, url_file, ai, filtered_urls, disk, database, sent_this_run, sliced,
                   entryIdx, last_sent_id_for_url, seen_last, pendingSaves, saveRet,
                   run, loaded, log, prevLog, hist, visited, summaries>>

\* the statement after the last save_data of a step
AfterSaves ==
    /\ pendingSaves' = pendingSaves - 1
    /\ IF pendingSaves > 1
       THEN /\ pc' = "save"
            /\ UNCHANGED entryIdx
       ELSE /\ pc' = saveRet
            /\ entryIdx' = IF saveRet = "entry" THEN entryIdx + 1 ELSE entryIdx

\* variant: after a failed save the run falls back on what DB_FILE holds
RevertedToFile(db, file) == load_data(file)

\* "except Exception: logging.exception(...)": the database in memory after
\* a save_data call that failed
AfterFailedSave(db, file) == db

\* save_data: open(DB_FILE, 'w') truncates the file, or raises and is logged
SaveOpen ==
    /\ pc = "save"
    /\ \/ /\ disk' = FileCorrupt
          /\ pc' = "write"
          /\ UNCHANGED <<pendingSaves, entryIdx, hist, database>>
       \/ /\ hist.faults < MaxFaults
          /\ hist' = [hist EXCEPT !.faults = @ + 1, !.clean = FALSE, !.saveFailed = TRUE,
                                  !.saveFailures = @ + 1]
          /\ AfterSaves
          /\ database' = AfterFailedSave(database, disk)
          /\ UNCHANGED disk
    /\ UNCHANGED <<now_utc, feeds, url_file, ai, filtered_urls, sent_this_run, feedIdx,
                   sliced, last_sent_id_for_url, seen_last, saveRet, run, loaded, log,
                   prevLog, visited, summaries>>

\* the summaries sent, once the save_data call that follows a summary has
\* written the database
SummarySaved(sent, ret) ==
    IF ret = "feed" /\ sent # <<>>
    THEN [sent EXCEPT ![Len(sent)].saved = TRUE]
    ELSE sent

\* save_data: json.dump writes the database, or raises part-way and is logged
SaveWrite ==
    /\ pc = "write"
    /\ \/ /\ disk' = FileOk(database)
          /\ summaries' = SummarySaved(summaries, saveRet)
          /\ UNCHANGED <<hist, database>>
       \/ /\ hist.faults < MaxFaults
          /\ hist' = [hist EXCEPT !.faults = @ + 1, !.clean = FALSE, !.saveFailed = TRUE,
                                  !.saveFailures = @ + 1]
          /\ database' = AfterFailedSave(database, disk)
          /\ UNCHANGED <<disk, summaries>>
    /\ AfterSaves
    /\ UNCHANGED <<now_utc, feeds, url_file, ai, filtered_urls, sent_this_run, feedIdx,
                   sliced, last_sent_id_for_url, seen_last, saveRet, run, loaded, log,
                   prevLog, visited>>

\* "check_news_job finished."
FinishRun ==
    /\ pc = "feed"
    /\ feedIdx > Len(filtered_urls)
    /\ pc' = "idle"
    /\ hist' = EndOfRun("finished")
    /\ Stopped
    /\ UNCHANGED <<now_utc, feeds, url_file, ai, disk, run, loaded, log, prevLog,
                   visited, summaries>>

\* the process is terminated in the middle of a run
Kill ==
    /\ pc # "idle"
    /\ hist.faults < MaxFaults
    /\ pc' = "idle"
    /\ hist' = [EndOfRun("killed") EXCEPT !.faults = @ + 1]
    /\ Stopped
    /\ UNCHANGED <<now_utc, feeds, url_file, ai, disk, run, loaded, log, prevLog,
                   visited, summaries>>

Next ==
    \/ StartRun
    \/ StartRunAbort
    \/ Summary
    \/ FetchFeed
    \/ ProcessEntry
    \/ EndFeed
    \/ SaveOpen
    \/ SaveWrite
    \/ FinishRun
    \/ Kill

Spec == Init /\ [][Next]_vars

----------------------------------------------------------------------------
(* process_article_with_ai on its own: one call, for any title and any      *)
(* behaviour of the two backends.                                           *)

GenTitles == {<<>>, <<"T">>, <<"a", "<", "b">>}

\* what genai_generate does
PrimaryReplies ==
    {Raises, Returns(<<>>), Returns(<<" ", "\n">>), Returns(<<"P">>),
     Returns(<<"P", "\n", "Q", " ">>), Returns(<<"P", "\n", "\n", "Q">>),
     Returns(<<" ", "P", "\n", "\n", "\n", "Q", "\n", "\n", "R">>)}

\* what one call of the secondary API does
SecondaryReplies ==
    {Raises, Returns(<<>>), Returns(<<"S">>), Returns(<<"S", "\n", "\n", "X">>)}

GenCalls ==
    { [title |-> t, primary |-> p, client |-> c, replies |-> r,
       returned |-> FALSE, ret |-> NoReturn] :
          t \in GenTitles, p \in PrimaryReplies, c \in BOOLEAN,
          r \in [1..(max_retries + 1) -> SecondaryReplies] }

GenInit ==
    /\ ai \in GenCalls
    /\ now_utc = [day |-> 10, hour |-> 4, minute |-> 0, second |-> 0]
    /\ feeds = [u \in Urls |-> <<>>]
    /\ url_file = UrlFileMissing
    /\ disk = FileMissing
    /\ NotStarted

\* the call returns
Generate ==
    /\ ~ai.returned
    /\ ai' = [ai EXCEPT !.returned = TRUE,
                        !.ret = process_article_with_ai(ai.title, ai.primary,
                                                        ai.client, ai.replies)]
    /\ UNCHANGED <<now_utc, feeds, url_file, disk, pc, database, filtered_urls,
                   sent_this_run, feedIdx, sliced, entryIdx, last_sent_id_for_url,
                   seen_last, pendingSaves, saveRet, run, loaded, log, prevLog, hist,
                   visited, summaries>>

GenNext == Generate

GenSpec == GenInit /\ [][GenNext]_vars

----------------------------------------------------------------------------
(* Vocabulary of the properties *)

\* the window of feed u in this snapshot, oldest first, as the run reads it
Window(u) == Reverse(Take(feeds[u], MAX_ENTRIES_PER_FEED))

\* the attempts of this run for feed u, in the order they were made
AttemptsOf(u) == SelectSeq(log, LAMBDA r : r.url = u)

\* the identifiers confirmed delivered so far in this run
ConfirmedIds == {log[i].id : i \in {j \in DOMAIN log : log[j].ok}}

\* the recency window: published today, or yesterday while the local time
\* since midnight is at most GRACE_HOURS hours
InRecencyWindow(pub_date, t) ==
    \/ pub_date = NowLocal(t).date
    \/ /\ pub_date = NowLocal(t).date - 1
       /\ NowLocal(t).hour * 3600 + NowLocal(t).minute * 60 + NowLocal(t).second
            <= GRACE_HOURS * 3600

\* an entry with an identifier, a publication date inside the recency window
\* and a topic match
Qualifies(entry) ==
    /\ EntryId(entry) # None
    /\ entry.published_parsed.has
    /\ InRecencyWindow(entry_published_date_in_tz(entry), now_utc)
    /\ detect_topic_and_emoji(entry.words) # None

\* feed u has a ledger identifier that no entry of its window carries
LostBoundary(u) ==
    /\ loaded[u] # None
    /\ \A i \in DOMAIN Window(u) : EntryId(Window(u)[i]) # loaded[u]

\* position (oldest first) of the first entry of w that carries identifier id
FirstPos(w, id) == CHOOSE p \in DOMAIN w :
                      /\ EntryId(w[p]) = id
                      /\ \A q \in DOMAIN w : EntryId(w[q]) = id => p <= q

----------------------------------------------------------------------------
(* Properties of the delivery state machine *)

\* ledger value v of feed u is the one loaded at run start, or the identifier
\* of an entry of u whose delivery this run has confirmed
FromLoadOrConfirmed(u, v) ==
    \/ v = loaded[u]
    \/ \E i \in DOMAIN log : log[i].url = u /\ log[i].id = v /\ log[i].ok

\* C1: in every state of a run, the ledger value of every feed, in memory and
\* in DB_FILE (when the file holds a database), is the value loaded at run
\* start or the identifier of an entry of that feed whose delivery was
\* confirmed earlier in this run: no identifier enters the ledger before or
\* without a confirmed delivery.
C1_LedgerOnlyAfterConfirmedDelivery ==
    run >= 1 =>
      \A u \in Urls :
        /\ pc # "idle" => FromLoadOrConfirmed(u, database.last_sent_links[u])
        /\ disk.state = "ok" => FromLoadOrConfirmed(u, disk.db.last_sent_links[u])

\* the ledger of some feed was advanced and written to DB_FILE
C1_Witness ==
    /\ pc = "entry"
    /\ disk.state = "ok"
    /\ \E u \in Urls : /\ disk.db.last_sent_links[u] # loaded[u]
                       /\ database.last_sent_links[u] = disk.db.last_sent_links[u]

\* C2: when the ledger identifier of a feed is carried by an entry of the
\* window, every delivery attempt of the run for that feed is for an entry
\* strictly after that entry, oldest first; the boundary entry is not sent
\* again, whatever its publication date and the clock.
C2_OnlyAfterBoundary ==
    \A i \in DOMAIN log :
      LET w == Window(log[i].url)
          b == log[i].boundary
      IN  (b # None /\ \E p \in DOMAIN w : EntryId(w[p]) = b)
            => log[i].idx > FirstPos(w, b)

\* C3: every entry for which a delivery is attempted was published today, or
\* yesterday while the local time is within the grace window; the boundary
\* entry of the ledger is no exception.
C3_AttemptsInsideRecencyWindow ==
    \A i \in DOMAIN log :
      LET entry == Window(log[i].url)[log[i].idx]
      IN  /\ entry.published_parsed.has
          /\ InRecencyWindow(entry_published_date_in_tz(entry), now_utc)

\* C4: a run that follows a finished run in which every delivery and every
\* save succeeded, on the same snapshot and with the same clock, attempts no
\* article delivery.
C4_SecondRunAttemptsNothing ==
    (pc # "idle" /\ run >= 2 /\ hist.prevEnd = "finished" /\ hist.prevClean)
      => log = <<>>

\* C5: when a feed has a ledger identifier that no entry of its window
\* carries, the run attempts no delivery for any entry of the feed and leaves
\* the feed's ledger value, in memory and in DB_FILE, as it was loaded.
C5_LostBoundaryNothingSent ==
    \A u \in Urls :
      (run >= 1 /\ LostBoundary(u)) =>
        /\ AttemptsOf(u) = <<>>
        /\ pc # "idle" => database.last_sent_links[u] = loaded[u]
        /\ disk.state = "ok" => disk.db.last_sent_links[u] = loaded[u]

\* the first feed has lost its boundary, carries an entry that qualifies, and
\* the run has gone through it
C5_Witness ==
    /\ pc = "feed"
    /\ feedIdx = 2
    /\ LostBoundary("u1")
    /\ \E i \in DOMAIN Window("u1") : Qualifies(Window("u1")[i])

\* C6: within a run, once the delivery of an identifier is confirmed no later
\* entry with that identifier is sent, in whichever feed it appears;
\* sent_this_run is exactly the set of identifiers confirmed so far in this
\* run, and it is empty when a run starts.
C6_CrossFeedDedupe ==
    /\ \A i, j \in DOMAIN log : (i < j /\ log[i].ok) => log[j].id # log[i].id
    /\ pc # "idle" => sent_this_run = ConfirmedIds
    /\ pc = "summary" => sent_this_run = {}

\* the second feed carries a qualifying entry whose identifier the first feed
\* delivered in this run, and the run has gone through the second feed
C6_Witness ==
    /\ pc = "feed"
    /\ feedIdx = 3
    /\ loaded["u2"] = None
    /\ \E i \in DOMAIN Window("u2") :
         /\ Qualifies(Window("u2")[i])
         /\ \E k \in DOMAIN log : /\ log[k].url = "u1"
                                  /\ log[k].ok
                                  /\ log[k].id = EntryId(Window("u2")[i])

\* a step in which the delivery of an entry fails: the HTML attempt and the
\* plain retry both returned failure
DeliveryFailedStep ==
    /\ Len(log') = Len(log) + 1
    /\ ~log'[Len(log')].ok

\* C7: a step in which the delivery of an entry fails leaves the database in
\* memory (last_sent_links, daily_sent), sent_this_run and DB_FILE exactly as
\* they were, and the run goes on with the next entry of the same feed.
C7_FailedDeliveryLeavesState ==
    [][DeliveryFailedStep =>
         /\ database' = database
         /\ sent_this_run' = sent_this_run
         /\ disk' = disk
         /\ pc' = "entry"
         /\ feedIdx' = feedIdx
         /\ sliced' = sliced
         /\ entryIdx' = entryIdx + 1]_vars

\* a delivery has just failed and the feed has a further entry
C7_Witness ==
    /\ pc = "entry"
    /\ log # <<>>
    /\ ~log[Len(log)].ok
    /\ log[Len(log)].idx = entryIdx - 1
    /\ entryIdx <= Len(sliced)

\* C8: an entry whose delivery failed in a run, and which is in the window and
\* passes the recency and topic filters in the next run (same snapshot, same
\* clock), is attempted again in that next run, whether or not newer entries
\* of the feed were delivered in the first of the two runs.
C8_FailedEntryRetriedNextRun ==
    (pc = "idle" /\ run >= 2 /\ hist.prevEnd = "finished") =>
      \A i \in DOMAIN prevLog :
        (~prevLog[i].ok /\ Qualifies(Window(prevLog[i].url)[prevLog[i].idx]))
          => \E j \in DOMAIN log : log[j].id = prevLog[i].id

Ids(es) == [i \in DOMAIN es |-> EntryId(es[i])]

\* the qualifying entries of the window of feed u, oldest first
QualifyingOf(u) ==
    SelectSeq(Reverse(Take(feeds[u], MAX_ENTRIES_PER_FEED)), Qualifies)

\* no qualifying entry of feed u carries an identifier already sent in this
\* run: not by another feed, and not by another qualifying entry of u
NoneAlreadySent(u) ==
    LET q == Ids(QualifyingOf(u))
    IN  /\ \A i, j \in DOMAIN q : i # j => q[i] # q[j]
        /\ \A i \in DOMAIN q : \A k \in DOMAIN log :
             (log[k].url # u /\ log[k].ok) => log[k].id # q[i]

\* C9: for a feed without ledger entry, when every delivery succeeds and no
\* identifier was already sent in this run, the entries delivered are exactly
\* the entries of the window that have an identifier, a publication date
\* inside the recency window and a topic match, in oldest-first order (the
\* reverse of the feed's order), none skipped.
C9_FirstRunDeliversQualifyingOldestFirst ==
    (pc = "entry" /\ entryIdx > Len(sliced)) =>
      LET u == filtered_urls[feedIdx]
          a == AttemptsOf(u)
      IN  ( /\ last_sent_id_for_url = None
            /\ \A i \in DOMAIN a : a[i].ok
            /\ NoneAlreadySent(u) )
          => [i \in DOMAIN a |-> a[i].id] = Ids(QualifyingOf(u))

\* a feed without ledger entry has been gone through and two entries with
\* different identifiers were delivered
C9_Witness ==
    /\ pc = "entry"
    /\ entryIdx > Len(sliced)
    /\ last_sent_id_for_url = None
    /\ Len(AttemptsOf(filtered_urls[feedIdx])) = 2
    /\ \A i \in DOMAIN log : log[i].ok
    /\ AttemptsOf(filtered_urls[feedIdx])[1].id # AttemptsOf(filtered_urls[feedIdx])[2].id

\* C10: when a run is killed at any point (no save_data call having failed),
\* the ledger the next run loads is the ledger the killed run had confirmed at
\* the kill, or that ledger before its last confirmed delivery: at most the
\* delivery in flight is lost.
C10_KillLosesAtMostInFlight ==
    (pc = "summary" /\ hist.prevEnd = "killed" /\ ~hist.prevSaveFailed) =>
      \/ loaded = hist.prevLedger
      \/ loaded = hist.prevBeforeLast

----------------------------------------------------------------------------
(* Properties of the generation chain and of the delivery *)

\* the primary backend failed: it raised, or its output holds nothing but
\* white space
PrimaryFailed(c) ==
    \/ c.primary.raises
    \/ \A i \in DOMAIN c.primary.text : IsSpace(c.primary.text[i])

\* the first of the max_retries + 1 calls of the secondary API that answers,
\* or 0
FirstAnswer(c) ==
    IF \E n \in 1..(max_retries + 1) : ~c.replies[n].raises
    THEN CHOOSE n \in 1..(max_retries + 1) :
           /\ ~c.replies[n].raises
           /\ \A m \in 1..(n - 1) : c.replies[m].raises
    ELSE 0

\* the (title, explanation) openai_generate hands back for that answer
SecondaryPair(c) ==
    LET parts == Parts(c.replies[FirstAnswer(c)].text)
    IN  IF parts # <<>> THEN ParseParts(parts)
        ELSE [t |-> c.title, e |-> OpenAIRespondedEmpty]

\* the secondary backend succeeded: openai_generate returned a title
SecondarySucceeded(c) ==
    /\ c.client
    /\ FirstAnswer(c) # 0
    /\ SecondaryPair(c).t # <<>>

EntryOf(r) == Window(r.url)[r.idx]

\* the message of the entry with the generated title, explanation and the
\* link as they were before html.escape was applied to them
PlainText(r) ==
    <<detect_topic_and_emoji(EntryOf(r).words), " ", "<b>">>
    \o r.made.translated_title \o <<"</b>", "\n", "\n">>
    \o replace_newlines(r.made.explanation)
    \o <<"\n", "\n", "published:", " ",
         isoformat(entry_published_date_in_tz(EntryOf(r)))>>
    \o <<"\n", "\n", "link:", " ", "<a href=", EntryOf(r).link, ">",
         "original-article", "</a>">>

\* C12: for every entry a delivery is attempted for, the first call of
\* send_telegram_message is in HTML mode; there is a second call if and only
\* if the first one failed, it is without parse_mode and its text is the
\* message with the escaping of title, explanation and link reversed, for
\* generated and degraded content alike; there are never more than two calls
\* for an entry, and no entry is taken up twice in a run.
C12_DeliveryWithFormatDegradation ==
    \A i \in DOMAIN log :
      LET r == log[i]
      IN  /\ r.sends # <<>>
          /\ r.sends[1].parse_mode = "HTML"
          /\ Len(r.sends) <= 2
          /\ Len(r.sends) = 2 <=> ~r.html_ok
          /\ Len(r.sends) = 2 =>
               /\ r.sends[2].parse_mode = None
               /\ r.sends[2].text = PlainText(r)
          /\ \A j \in DOMAIN log : (log[j].url = r.url /\ log[j].idx = r.idx) => j = i

\* the HTML attempt failed for an entry with the degraded content, whose
\* title holds characters that html.escape rewrites: the plain text was sent
\* and differs from the HTML text
C12_Witness ==
    \E i \in DOMAIN log :
      /\ ~log[i].html_ok
      /\ log[i].made.backend_used = "fallback"
      /\ "&" \in {EntryOf(log[i]).title[k] : k \in DOMAIN EntryOf(log[i]).title}
      /\ Len(log[i].sends) = 2
      /\ log[i].sends[2].text # log[i].sends[1].text

----------------------------------------------------------------------------
(* Properties of the error handling *)

\* C13: whatever DB_FILE holds when a run starts (no file, text that is not
\* JSON, JSON of any shape, any bytes), check_news_job does not end with an
\* error at its start: it goes on to the summary and the feeds with a usable
\* database, which is the empty one when the file is missing or unreadable.
C13_LoadNeverAborts ==
    /\ hist.prevEnd # "aborted"
    /\ pc = "summary" =>
         /\ database # NotADict
         /\ disk.state # "ok" => database = EmptyDB

\* a step in which a save_data call fails
SaveFailedStep == hist'.saveFailures = hist.saveFailures + 1

\* the last confirmed delivery of this run for feed u, as a set (empty when
\* there is none)
LastConfirmed(u) ==
    {i \in DOMAIN log :
       /\ log[i].url = u /\ log[i].ok
       /\ \A j \in DOMAIN log : (log[j].url = u /\ log[j].ok) => j <= i}

\* C14: a save_data call that fails does not end the run: the step leaves the
\* database in memory and sent_this_run as they are and the run goes on where
\* a successful save would have gone on; whether or not saves have failed,
\* the ledger in memory holds for every feed the identifier of its last
\* confirmed delivery of the run, and sent_this_run every confirmed
\* identifier, so that the remaining entries and feeds are processed against
\* the advanced state.
C14_SaveFailureNotFatal ==
    /\ [](pc # "idle" =>
            /\ \A u \in Urls : \A i \in LastConfirmed(u) :
                 database.last_sent_links[u] = log[i].id
            /\ ConfirmedIds \subseteq sent_this_run)
    /\ [][SaveFailedStep =>
            /\ database' = database
            /\ sent_this_run' = sent_this_run
            /\ pc' = (IF pendingSaves > 1 THEN "save" ELSE saveRet)
            /\ UNCHANGED <<feedIdx, sliced, filtered_urls, last_sent_id_for_url,
                           seen_last, log>>]_vars

\* the first save_data call after a confirmed delivery failed (DB_FILE does
\* not hold the delivery) and the run is about to make the second call with
\* the ledger advanced in memory
C14_Witness ==
    /\ pc = "save"
    /\ pendingSaves = 1
    /\ hist.saveFailed
    /\ log # <<>>
    /\ log[Len(log)].ok
    /\ database.last_sent_links[log[Len(log)].url] = log[Len(log)].id
    /\ disk.state = "ok" => disk.db.last_sent_links[log[Len(log)].url] # log[Len(log)].id

\* a run that is in the feed loop or in a save has a next step of its own:
\* the next feed or the end of the run, the next entry or the end of the
\* feed, the write after the open, the statement after the save
HasNextStep ==
    /\ pc = "feed" => ENABLED (FetchFeed \/ FinishRun)
    /\ pc = "entry" => (entryIdx <= Len(sliced) \/ ENABLED EndFeed)
    /\ pc = "save" => ENABLED SaveOpen
    /\ pc = "write" => ENABLED SaveWrite

\* the feeds the run has come to: the first n of the list, in order
VisitedSoFar(n) == SubSeq(filtered_urls, 1, n)

\* C15: no failure stops a run: no run ends with an error; a run in the feed
\* loop always has a next step of its own; the feeds it has come to are
\* the first ones of the list, one after the other, whatever failed in them,
\* and all of the list when it finishes; the ledger value of a feed without
\* a confirmed delivery in the run (an unavailable or empty feed among them)
\* is the loaded one.
C15_Isolation ==
    /\ hist.prevEnd # "aborted"
    /\ HasNextStep
    /\ pc = "feed" => visited = VisitedSoFar(feedIdx - 1)
    /\ pc \in {"entry", "save", "write"} /\ ~(pc \in {"save", "write"} /\ saveRet = "feed")
         => visited = VisitedSoFar(feedIdx)
    /\ (pc = "idle" /\ hist.prevEnd = "finished") => visited = ReadAndDedupe(url_file)
    /\ pc # "idle" =>
         \A u \in Urls : LastConfirmed(u) = {} => database.last_sent_links[u] = loaded[u]

----------------------------------------------------------------------------
(* Properties of the entries that are left out *)

\* an entry with no id, no guid and no link
NoIdentifier(entry) == entry.id = None /\ entry.guid = None /\ entry.link = None

\* an entry with neither published_parsed nor updated_parsed
NoTimestamp(entry) == ~entry.published_parsed.has

Unusable(entry) == NoIdentifier(entry) \/ NoTimestamp(entry)

\* the unusable entries the feeds carry
UnusableEntries == {e \in Entries : Unusable(e)}

\* the database db records nothing of the entry e
RecordsNothingOf(db, e) ==
    /\ \A u \in Urls : db.last_sent_links[u] \notin ({e.id, e.guid, e.link} \ {None})
    /\ \A d \in Dates : \A k \in DOMAIN db.daily_sent[d] :
         db.daily_sent[d][k].link # e.link

\* the step is the iteration of "for entry in sliced" for an unusable entry
UnusableEntryStep ==
    /\ pc = "entry"
    /\ entryIdx <= Len(sliced)
    /\ Unusable(sliced[entryIdx])
    /\ pc' # "idle"

\* C16: no delivery is attempted for an entry without identifier or without
\* publication timestamp, and nothing of it is in the ledger, sent_this_run
\* or daily_sent, in memory or in DB_FILE; the iteration of such an entry
\* changes only the place in the feed: seen_last and the boundary stay, so the
\* other entries are treated as if it were not there.
C16_UnusableEntriesNeverSent ==
    /\ [](/\ \A i \in DOMAIN log : ~Unusable(EntryOf(log[i]))
          /\ \A e \in UnusableEntries :
               /\ sent_this_run \cap {e.id, e.guid, e.link} = {}
               /\ pc # "idle" => RecordsNothingOf(database, e)
               /\ disk.state = "ok" => RecordsNothingOf(disk.db, e))
    /\ [][UnusableEntryStep =>
            /\ entryIdx' = entryIdx + 1
            /\ pc' = "entry"
            /\ UNCHANGED <<seen_last, last_sent_id_for_url, database, sent_this_run,
                           disk, log, feedIdx, sliced>>]_vars

\* a feed whose older entry is unusable has been gone through, and the entry
\* after it was delivered and recorded
C16_Witness ==
    /\ pc = "entry"
    /\ Len(sliced) = 2
    /\ entryIdx = 3
    /\ Unusable(sliced[1])
    /\ \E i \in DOMAIN log :
         /\ log[i].url = filtered_urls[feedIdx] /\ log[i].idx = 2 /\ log[i].ok
         /\ database.last_sent_links[log[i].url] = log[i].id

\* the keywords of every configured topic list
AllowedKeywords == astro \cup physics \cup quantum \cup philos_science
                   \cup philos_mind \cup epist

\* the text of the entry (title and stripped summary, lower-cased) contains
\* no keyword
MatchesNoKeyword(entry) == entry.words \cap AllowedKeywords = {}

\* the step is the iteration of "for entry in sliced" for an entry that
\* matches no keyword
NoKeywordEntryStep ==
    /\ pc = "entry"
    /\ entryIdx <= Len(sliced)
    /\ MatchesNoKeyword(sliced[entryIdx])
    /\ pc' # "idle"

\* C17: every entry a delivery is attempted for contains a keyword of a
\* configured topic list; the iteration of an entry that contains none leaves
\* the database (ledger and daily_sent), sent_this_run and DB_FILE unchanged,
\* attempts no delivery and goes on to the next entry.
C17_TopicAllowlist ==
    /\ [](\A i \in DOMAIN log : ~MatchesNoKeyword(EntryOf(log[i])))
    /\ [][NoKeywordEntryStep =>
            /\ entryIdx' = entryIdx + 1
            /\ pc' = "entry"
            /\ UNCHANGED <<database, sent_this_run, disk, log>>]_vars

\* an entry of today with identifier and timestamp, in a feed without
\* boundary, was left out because it contains no keyword, and the entry after
\* it was delivered
C17_Witness ==
    /\ pc = "entry"
    /\ Len(sliced) = 2
    /\ entryIdx = 3
    /\ last_sent_id_for_url = None
    /\ MatchesNoKeyword(sliced[1])
    /\ ~Unusable(sliced[1])
    /\ InRecencyWindow(entry_published_date_in_tz(sliced[1]), now_utc)
    /\ \A i \in DOMAIN log : log[i].url = filtered_urls[feedIdx] => log[i].idx = 2
    /\ \E i \in DOMAIN log : log[i].url = filtered_urls[feedIdx] /\ log[i].ok

----------------------------------------------------------------------------
(* Properties of the nightly summary *)

\* the step sends a nightly summary successfully
SummarySentStep == Len(summaries') = Len(summaries) + 1

\* C18: a nightly summary is sent only for the local date of the run and only
\* when the local hour of the run is at least SUMMARY_HOUR; once a summary for
\* a date was sent and the database saved after it, no later run sends a
\* summary for that date; during a run last_summary_date changes only in the
\* step that sends a summary, to the date of that summary.
C18_SummaryAtMostOncePerDate ==
    /\ [](\A i \in DOMAIN summaries :
            /\ summaries[i].date = today_local(now_utc)
            /\ NowLocal(now_utc).hour >= SUMMARY_HOUR)
    /\ [](\A i, j \in DOMAIN summaries :
            (i < j /\ summaries[i].saved /\ summaries[i].run < summaries[j].run)
              => summaries[j].date # summaries[i].date)
    /\ [][(pc # "idle" /\ pc' # "idle"
           /\ database'.last_summary_date # database.last_summary_date)
            => /\ SummarySentStep
               /\ database'.last_summary_date = summaries'[Len(summaries')].date]_vars

\* the record add_daily_sent makes for a confirmed delivery of this run
DailyRecord(r) == [title_fa |-> r.made.translated_title, link |-> EntryOf(r).link]

\* the elements of a sequence
Range(seq) == {seq[k] : k \in DOMAIN seq}

\* the articles listed in the nightly summaries sent for date d
Summarised(d) ==
    UNION {Range(summaries[i].entries) : i \in {j \in DOMAIN summaries : summaries[j].date = d}}

\* no run will send a summary for date d any more: the date is over, or the
\* database says that its summary has been sent
SummaryClosed(d) ==
    \/ d < today_local(now_utc)
    \/ database.last_summary_date = d

\* C19: during a run every confirmed delivery is recorded in daily_sent under
\* the publication date of its entry; a summary lists the articles recorded
\* for its date when it is sent; and every article of the recency window
\* whose delivery is confirmed is listed in the nightly summary sent for its
\* publication date, at the latest when no summary for that date can be sent
\* any more (yesterday's articles delivered in the grace window among them).
C19_SummaryCompleteness ==
    /\ [](pc # "idle" =>
            \A i \in DOMAIN log : log[i].ok =>
               DailyRecord(log[i]) \in
                 Range(database.daily_sent[entry_published_date_in_tz(EntryOf(log[i]))]))
    /\ [][SummarySentStep =>
            summaries'[Len(summaries')].entries = database.daily_sent[today_local(now_utc)]]_vars
    /\ [](pc # "idle" =>
            \A i \in DOMAIN log :
               LET d == entry_published_date_in_tz(EntryOf(log[i]))
               IN  (log[i].ok /\ InRecencyWindow(d, now_utc) /\ SummaryClosed(d))
                     => DailyRecord(log[i]) \in Summarised(d))

----------------------------------------------------------------------------
(* Properties of the feed list *)

\* the line holds nothing but white space
IsBlankLine(line) == \A k \in DOMAIN line : IsSpace(line[k])

\* the first character of the line that is not white space, at position k
FirstNonSpace(line, k) ==
    /\ ~IsSpace(line[k])
    /\ \A m \in 1..(k - 1) : IsSpace(line[m])

\* the line is a comment: its first character after the white space is #
IsCommentLine(line) == \E k \in DOMAIN line : FirstNonSpace(line, k) /\ line[k] = "#"

\* the lines of the file that name a feed, and the url of such a line
FeedLines(file) ==
    {n \in DOMAIN file.lines :
        ~IsBlankLine(file.lines[n]) /\ ~IsCommentLine(file.lines[n])}
UrlOfLine(line) == line[CHOOSE k \in DOMAIN line : FirstNonSpace(line, k)]

\* the first line of the file that names the url u
FirstLineOf(file, u) ==
    CHOOSE n \in FeedLines(file) :
       /\ UrlOfLine(file.lines[n]) = u
       /\ \A m \in FeedLines(file) : UrlOfLine(file.lines[m]) = u => n <= m

\* list holds every url the file names once, in the order of first occurrence
IsFeedListOf(list, file) ==
    /\ \A i, j \in DOMAIN list : i # j => list[i] # list[j]
    /\ Range(list) = {UrlOfLine(file.lines[n]) : n \in FeedLines(file)}
    /\ \A i, j \in DOMAIN list :
         i < j => FirstLineOf(file, list[i]) < FirstLineOf(file, list[j])

\* the run has read URL_FILE
UrlsRead == pc \notin {"idle", "summary"}

\* C20: the feed list of a run holds the urls of the lines of URL_FILE that
\* are neither blank nor comments, each once, in the order of their first
\* occurrence; the feeds are fetched one at a time in that order, and a run
\* that finishes has fetched exactly that list; when URL_FILE is missing or
\* cannot be read the list is empty, no feed is fetched, no delivery is
\* attempted and the ledger, in memory and in a readable DB_FILE, holds the
\* values the run loaded.
C20_FeedListHandling ==
    /\ (UrlsRead /\ url_file.state = "ok") => IsFeedListOf(filtered_urls, url_file)
    /\ UrlsRead => \E n \in 0..Len(filtered_urls) : visited = SubSeq(filtered_urls, 1, n)
    /\ (pc = "idle" /\ hist.prevEnd = "finished" /\ url_file.state = "ok")
         => IsFeedListOf(visited, url_file)
    /\ (run > 0 /\ hist.prevEnd # "aborted" /\ url_file.state # "ok") =>
         /\ visited = <<>>
         /\ log = <<>>
         /\ UrlsRead =>
              /\ filtered_urls = <<>>
              /\ database.last_sent_links = loaded
              /\ disk.state = "ok" => disk.db.last_sent_links = loaded

\* a run over a file with a blank line, comments, white space around a url
\* and a repeated url has finished: it fetched the two feeds, once each, in
\* the order of the file, and delivered an article of the second one
C20_Witness ==
    /\ pc = "idle"
    /\ hist.prevEnd = "finished"
    /\ url_file.state = "ok"
    /\ Len(url_file.lines) > Cardinality(FeedLines(url_file))
    /\ Cardinality(FeedLines(url_file)) > Len(visited)
    /\ Len(visited) = 2
    /\ \E i \in DOMAIN log : log[i].url = visited[2] /\ log[i].ok

----------------------------------------------------------------------------
(* Properties of the two backends' raw output *)

\* the raw texts the backends of the call hand back
RawTextsOf(c) ==
    (IF c.primary.raises THEN {} ELSE {c.primary.text})
    \cup {c.replies[n].text : n \in {m \in DOMAIN c.replies : ~c.replies[m].raises}}

\* what process_article_with_ai returns when the primary backend answers x
\* and there is no secondary backend
FromPrimary(title, x) ==
    process_article_with_ai(title, Returns(x), FALSE, [n \in 1..(max_retries + 1) |-> Raises])

\* what it returns when the primary backend raises and every call of the
\* secondary API answers x
FromSecondary(title, x) ==
    process_article_with_ai(title, Raises, TRUE, [n \in 1..(max_retries + 1) |-> Returns(x)])

\* the text holds nothing but white space
IsEmptyOutput(x) == \A k \in DOMAIN x : IsSpace(x[k])

\* C21: for every raw text a backend of the call hands back, the (title,
\* explanation) returned when the text is the primary backend's output is the
\* one returned when it is the secondary backend's output; a text that is
\* empty or holds only white space counts as a failure of the backend it
\* comes from: with no other backend to answer, the degraded substitute is
\* returned in both cases.
C21_SameSplittingContract ==
    ai.returned =>
      \A x \in RawTextsOf(ai) :
         /\ FromPrimary(ai.title, x).translated_title
              = FromSecondary(ai.title, x).translated_title
         /\ FromPrimary(ai.title, x).explanation = FromSecondary(ai.title, x).explanation
         /\ IsEmptyOutput(x) =>
              /\ FromPrimary(ai.title, x).backend_used = "fallback"
              /\ FromSecondary(ai.title, x).backend_used = "fallback"
         /\ ~IsEmptyOutput(x) =>
              /\ FromPrimary(ai.title, x).backend_used = "genai"
              /\ FromSecondary(ai.title, x).backend_used = "openai"

----------------------------------------------------------------------------
(* Properties of the ledger within a run *)

\* the boundary of the delivery attempt r is an entry of the feed's window
BoundaryInWindow(r) ==
    /\ r.boundary # None
    /\ \E p \in DOMAIN Window(r.url) : EntryId(Window(r.url)[p]) = r.boundary

\* C22: during a run, and so after every feed, the ledger value of a feed is
\* the loaded one when no delivery for the feed was confirmed in the run, and
\* otherwise the identifier of the confirmed delivery made last, which is the
\* one latest in oldest-first order; no confirmed delivery is for an entry
\* that lies before the boundary entry of its feed in oldest-first order; and
\* a step of the run changes no ledger value but that of the feed being
\* processed.
C22_LedgerAtNewestConfirmed ==
    /\ [](pc # "idle" =>
            /\ \A u \in Urls :
                 /\ LastConfirmed(u) = {} => database.last_sent_links[u] = loaded[u]
                 /\ \A i \in LastConfirmed(u) :
                      /\ database.last_sent_links[u] = log[i].id
                      /\ \A j \in DOMAIN log :
                           (log[j].url = u /\ log[j].ok) => log[j].idx <= log[i].idx
            /\ \A i, j \in DOMAIN log :
                 (i < j /\ log[i].url = log[j].url) => log[i].idx < log[j].idx
            /\ \A i \in DOMAIN log :
                 (log[i].ok /\ BoundaryInWindow(log[i]))
                   => log[i].idx >= FirstPos(Window(log[i].url), log[i].boundary))
    /\ [][(pc # "idle" /\ pc' # "idle") =>
            \A u \in Urls :
               database'.last_sent_links[u] # database.last_sent_links[u]
                 => (pc = "entry" /\ u = filtered_urls[feedIdx])]_vars

\* a feed whose boundary is the oldest entry of its window has been gone
\* through: the entry after the boundary was delivered, the ledger value of
\* the feed is its identifier and the other feed's value is the loaded one
C22_Witness ==
    /\ pc = "entry"
    /\ entryIdx > Len(sliced)
    /\ Len(sliced) = 2
    /\ last_sent_id_for_url = EntryId(sliced[1])
    /\ last_sent_id_for_url # None
    /\ EntryId(sliced[2]) # EntryId(sliced[1])
    /\ \E i \in DOMAIN log :
         /\ log[i].url = filtered_urls[feedIdx] /\ log[i].idx = 2 /\ log[i].ok
         /\ database.last_sent_links[log[i].url] = log[i].id
    /\ \A u \in Urls \ {filtered_urls[feedIdx]} : database.last_sent_links[u] = loaded[u]

----------------------------------------------------------------------------
(* Properties of the deliveries of one run *)

\* the step confirms a delivery
ConfirmedStep ==
    /\ Len(log') = Len(log) + 1
    /\ log'[Len(log')].ok

\* C23: in one run no identifier is confirmed delivered twice, whether it is
\* carried twice by one feed's window or by several feeds; the step that
\* confirms a delivery appends one record (generated title, link) to
\* daily_sent under the publication date of the entry and changes nothing
\* else of daily_sent, and no other step of the run changes daily_sent.
C23_OneConfirmedDeliveryPerId ==
    /\ [](\A i, j \in DOMAIN log :
            (i # j /\ log[i].ok /\ log[j].ok) => log[i].id # log[j].id)
    /\ [][ConfirmedStep =>
            LET r == log'[Len(log')]
                d == entry_published_date_in_tz(Window(r.url)[r.idx])
            IN  database'.daily_sent =
                  [database.daily_sent EXCEPT
                     ![d] = Append(@, [title_fa |-> r.made.translated_title,
                                       link |-> Window(r.url)[r.idx].link])]]_vars
    /\ [][(pc # "idle" /\ pc' # "idle" /\ ~ConfirmedStep)
            => database'.daily_sent = database.daily_sent]_vars

\* a window that carries the same identifier twice has been gone through: one
\* delivery of it was confirmed, the second occurrence was attempted never
C23_Witness ==
    /\ pc = "entry"
    /\ Len(sliced) = 2
    /\ entryIdx = 3
    /\ EntryId(sliced[1]) = EntryId(sliced[2])
    /\ \E i \in DOMAIN log :
         /\ log[i].url = filtered_urls[feedIdx] /\ log[i].idx = 1 /\ log[i].ok
         /\ log[i].id \in sent_this_run
    /\ \A i \in DOMAIN log : log[i].url = filtered_urls[feedIdx] => log[i].idx = 1

----------------------------------------------------------------------------
(* Properties of a lost boundary over several runs *)

\* the run before this one ended with a ledger identifier for feed u that no
\* entry of the feed's window carries: the feed had lost its boundary in it
LostBoundaryBefore(u) ==
    /\ run >= 2
    /\ hist.prevEnd \in {"finished", "killed"}
    /\ hist.prevLedger[u] # None
    /\ \A p \in DOMAIN Window(u) : EntryId(Window(u)[p]) # hist.prevLedger[u]

\* C24: a run leaves the ledger value of a feed that has lost its boundary as
\* it was loaded; and when the run before had such a feed and the identifier
\* is still outside the feed's window, this run attempts no delivery for any
\* entry of that feed, whatever qualifying entries the window carries.
C24_PermanentStall ==
    \A u \in Urls :
      /\ (pc # "idle" /\ LostBoundary(u)) => database.last_sent_links[u] = loaded[u]
      /\ (pc # "idle" /\ LostBoundaryBefore(u)) => AttemptsOf(u) = <<>>

====
